---- MODULE Spec2Model ----
(***************************************************************************)
(* Model of asa_api_cli/impression_share.py: the KeywordShareData          *)
(* properties (suggested_bid, suggested_bid_str), _parse_report_data and   *)
(* the three commands analyze, optimize and report.                        *)
(*                                                                         *)
(* Python floats are IEEE-754 doubles.  A double is modelled exactly as    *)
(* <<hi, mid, lo, e>>: its 53-bit significand hi*2^48 + mid*2^24 + lo      *)
(* (in [2^52, 2^53), or 0 for 0.0) and its exponent e, so that the value   *)
(* is significand * 2^e.  None is the empty tuple.  Only non-negative      *)
(* finite doubles occur (shares and thresholds).                           *)
(*                                                                         *)
(* A Decimal is modelled exactly as [c, x]: the value c / 10^x.            *)
(* A str is a sequence of one-character strings.                           *)
(*                                                                         *)
(* Of a report row and of KeywordShareData the fields that only feed the   *)
(* display (ad_group_name, country, low_share, rank, search_popularity)    *)
(* are left out, as are share_range, rank_str, bid_str and --suggest.      *)
(* The variable log records, in order, every API call with its outcome,    *)
(* every prompt with its answer and every console output.                  *)
(***************************************************************************)
EXTENDS Integers, Sequences, FiniteSets, TLC

VARIABLES
    \* ---- evaluation of the KeywordShareData properties on one record ----
    rec,            \* the record the properties are evaluated on
    sug,            \* value returned by rec.suggested_bid
    sugStr,         \* value returned by rec.suggested_bid_str
    bpc,            \* "in" -> "bid" -> "str" ("off" while a command runs)
    \* ---- one invocation of a command ----
    args,           \* the command and its options
    env,            \* today's date, the account and the report the API returns
    pc,             \* position in the command ("idle" when none runs)
    days,           \* the local days after validation
    start_date,
    end_date,
    report,         \* report.row
    ci,             \* index of the campaign being listed
    ai,             \* index of the ad group being listed
    keywords_by_id,
    keyword_paths,
    parsed,         \* data after _parse_report_data
    filtered,       \* data after the share filter
    data,           \* data after all filters and the sort
    idx,            \* loop index of the optimize walkthrough
    updates_made,
    updates_skipped,
    log             \* API calls, prompts and console output, in order

bidVars == <<rec, sug, sugStr, bpc>>

cmdVars == <<args, env, pc, days, start_date, end_date, report, ci, ai,
             keywords_by_id, keyword_paths, parsed, filtered, data, idx,
             updates_made, updates_skipped, log>>

vars == <<bidVars, cmdVars>>

None == <<>>

----------------------------------------------------------------------------
(* IEEE-754 double arithmetic on 24-bit limbs *)

RECURSIVE Pow2(_)
Pow2(n) == IF n = 0 THEN 1 ELSE 2 * Pow2(n - 1)

B == Pow2(24)       \* the limb base

RECURSIVE BitLen(_)
BitLen(n) == IF n = 0 THEN 0 ELSE 1 + BitLen(n \div 2)

FZero == <<0, 0, 0, 0>>

IsZero(a) == a[1] = 0 /\ a[2] = 0 /\ a[3] = 0

\* significand comparison, most significant limb first
MantLt(a, b) ==
    \/ a[1] < b[1]
    \/ a[1] = b[1] /\ a[2] < b[2]
    \/ a[1] = b[1] /\ a[2] = b[2] /\ a[3] < b[3]

\* a < b on non-negative doubles
FLt(a, b) ==
    IF IsZero(b) THEN FALSE
    ELSE IF IsZero(a) THEN TRUE
    ELSE \/ a[4] < b[4]
         \/ a[4] = b[4] /\ MantLt(a, b)

FLe(a, b) == ~FLt(b, a)
FGe(a, b) == ~FLt(a, b)
FGt(a, b) == FLt(b, a)

\* float(n) for an integer 0 <= n < 2^24
FromInt(n) ==
    IF n = 0 THEN FZero
    ELSE LET bl == BitLen(n)
             v  == n * Pow2(29 - bl)      \* significand in units of 2^24
         IN  <<v \div B, v % B, 0, bl - 53>>

\* Round the integer <<p2, p1, p0>> * 2^e (p2 not limited to 24 bits) to a
\* 53-bit significand by dropping its s low bits, round-half-to-even;
\* sticky says that non-zero bits lie below the integer.
RoundShift(p2, p1, p0, s, sticky, e) ==
    LET d    == Pow2(s)
        up   == Pow2(24 - s)
        q0   == (p0 \div d) + (p1 % d) * up
        q1   == (p1 \div d) + (p2 % d) * up
        q2   == p2 \div d
        r    == p0 % d
        half == d \div 2
        inc  == \/ r > half
                \/ r = half /\ sticky
                \/ r = half /\ ~sticky /\ q0 % 2 = 1
        n0   == IF inc THEN q0 + 1 ELSE q0
        n1   == q1 + (n0 \div B)
        n2   == q2 + (n1 \div B)
    IN  IF n2 = 32      \* rounded up to 2^53: renormalise
        THEN <<16, 0, 0, e + s + 1>>
        ELSE <<n2, n1 % B, n0 % B, e + s>>

\* a * 100 (float * int: the int converts exactly to 100.0)
FMul100(a) ==
    IF IsZero(a) THEN FZero
    ELSE LET t0 == a[3] * 100
             t1 == a[2] * 100 + (t0 \div B)
             p2 == a[1] * 100 + (t1 \div B)
             p1 == t1 % B
             p0 == t0 % B
             \* the product has 59 or 60 bits
             s  == IF p2 >= 2048 THEN 7 ELSE 6
         IN  RoundShift(p2, p1, p0, s, FALSE, a[4])

\* a / 100.0 = (significand * 2^8 / 25) * 2^(e - 10)
FDiv100(a) ==
    IF IsZero(a) THEN FZero
    ELSE LET n2 == a[1] * 256 + (a[2] \div 65536)
             n1 == (a[2] % 65536) * 256 + (a[3] \div 65536)
             n0 == (a[3] % 65536) * 256
             q2 == n2 \div 25
             c2 == (n2 % 25) * B + n1
             q1 == c2 \div 25
             c1 == (c2 % 25) * B + n0
             q0 == c1 \div 25
             rm == c1 % 25
             \* the quotient has 56 or 57 bits
             s  == IF q2 >= 256 THEN 4 ELSE 3
         IN  RoundShift(q2, q1, q0, s, rm # 0, a[4] - 10)

\* the float literals of the source
F05 == <<16, 0, 0, -53>>                 \* 0.5  = 0x1.0000000000000p-1
F03 == <<19, 3355443, 3355443, -54>>     \* 0.3  = 0x1.3333333333333p-2

\* other doubles used as report values
F000     == FZero                               \* 0.0
F005     == <<25, 10066329, 10066330, -57>>     \* 0.05 = 0x1.999999999999ap-5
F010     == <<25, 10066329, 10066330, -56>>     \* 0.1  = 0x1.999999999999ap-4
F010next == <<25, 10066329, 10066331, -56>>     \* the double after 0.1
F020     == <<25, 10066329, 10066330, -55>>     \* 0.2
F029     == <<18, 9395240, 16106127, -54>>      \* 0.29 = 0x1.28f5c28f5c28fp-2
F030     == F03                                 \* 0.3
F030next == <<19, 3355443, 3355444, -54>>       \* the double after 0.3
F040     == <<25, 10066329, 10066330, -54>>     \* 0.4
F050prev == <<31, 16777215, 16777215, -54>>     \* the double before 0.5
F050     == F05                                 \* 0.5
F060     == <<19, 3355443, 3355443, -53>>       \* 0.6
F080     == <<25, 10066329, 10066330, -53>>     \* 0.8  = 0x1.999999999999ap-1
F100     == <<16, 0, 0, -52>>                   \* 1.0

----------------------------------------------------------------------------
(* decimal.Decimal *)

RECURSIVE Pow10(_)
Pow10(n) == IF n = 0 THEN 1 ELSE 10 * Pow10(n - 1)

Dec(c, x) == [c |-> c, x |-> x]

DecMul(a, b) == Dec(a.c * b.c, a.x + b.x)

DecEq(a, b) == a.c * Pow10(b.x) = b.c * Pow10(a.x)
DecGt(a, b) == a.c * Pow10(b.x) > b.c * Pow10(a.x)

\* format(d, ".2f"): the number of hundredths, rounded half to even
DecFormat2f(a) ==
    IF a.x <= 2 THEN a.c * Pow10(2 - a.x)
    ELSE LET d == Pow10(a.x - 2)
             q == a.c \div d
             r == a.c % d
         IN  IF 2 * r > d \/ (2 * r = d /\ q % 2 = 1) THEN q + 1 ELSE q

----------------------------------------------------------------------------
(* KeywordShareData *)

\* suggested_bid with the first test written "> 0.5"
suggested_bid_gt(r) ==
    IF r.high_share = None \/ FGt(r.high_share, F05)
    THEN r.current_bid
    ELSE LET high_pct == FMul100(r.high_share)
         IN  IF FLe(high_pct, FromInt(10)) THEN DecMul(r.current_bid, Dec(150, 2))
             ELSE IF FLe(high_pct, FromInt(30)) THEN DecMul(r.current_bid, Dec(125, 2))
             ELSE IF FLe(high_pct, FromInt(50)) THEN DecMul(r.current_bid, Dec(110, 2))
             ELSE r.current_bid

\* suggested_bid with the tier tests written "<" instead of "<="
suggested_bid_lt(r) ==
    IF r.high_share = None \/ FGe(r.high_share, F05)
    THEN r.current_bid
    ELSE LET high_pct == FMul100(r.high_share)
         IN  IF FLt(high_pct, FromInt(10)) THEN DecMul(r.current_bid, Dec(150, 2))
             ELSE IF FLt(high_pct, FromInt(30)) THEN DecMul(r.current_bid, Dec(125, 2))
             ELSE IF FLt(high_pct, FromInt(50)) THEN DecMul(r.current_bid, Dec(110, 2))
             ELSE r.current_bid

\* suggested_bid with the last tier's multiplier written 1.01
suggested_bid_101(r) ==
    IF r.high_share = None \/ FGe(r.high_share, F05)
    THEN r.current_bid
    ELSE LET high_pct == FMul100(r.high_share)
         IN  IF FLe(high_pct, FromInt(10)) THEN DecMul(r.current_bid, Dec(150, 2))
             ELSE IF FLe(high_pct, FromInt(30)) THEN DecMul(r.current_bid, Dec(125, 2))
             ELSE IF FLe(high_pct, FromInt(50)) THEN DecMul(r.current_bid, Dec(101, 2))
             ELSE r.current_bid

suggested_bid(r) ==
    IF r.high_share = None \/ FGe(r.high_share, F05)
    THEN r.current_bid
    ELSE LET high_pct == FMul100(r.high_share)
         IN  IF FLe(high_pct, FromInt(10)) THEN DecMul(r.current_bid, Dec(150, 2))
             ELSE IF FLe(high_pct, FromInt(30)) THEN DecMul(r.current_bid, Dec(125, 2))
             ELSE IF FLe(high_pct, FromInt(50)) THEN DecMul(r.current_bid, Dec(110, 2))
             ELSE r.current_bid

\* "-" or the formatted amount <<hundredths, currency>>
suggested_bid_str(r) ==
    LET suggested == suggested_bid(r)
    IN  IF DecEq(suggested, r.current_bid)
        THEN <<"-">>
        ELSE <<DecFormat2f(suggested), r.currency>>

----------------------------------------------------------------------------
(* str *)

\* the characters that occur in the modelled strings
LowerChar(ch) ==
    CASE ch = "B" -> "b"
      [] ch = "U" -> "u"
      [] ch = "S" -> "s"
      [] OTHER -> ch

UpperChar(ch) ==
    CASE ch = "b" -> "B"
      [] ch = "u" -> "U"
      [] ch = "s" -> "S"
      [] OTHER -> ch

StrLower(s) == [i \in 1..Len(s) |-> LowerChar(s[i])]
StrUpper(s) == [i \in 1..Len(s) |-> UpperChar(s[i])]

\* s.replace("*", "")
StripStar(s) == SelectSeq(s, LAMBDA ch : ch # "*")

\* sub in s
Contains(sub, s) ==
    \E i \in 0..(Len(s) - Len(sub)) : SubSeq(s, i + 1, i + Len(sub)) = sub

DigitChars == <<"0", "1", "2", "3", "4", "5", "6", "7", "8", "9">>

IsDigit(ch) == \E i \in 1..10 : DigitChars[i] = ch

DigitVal(ch) == (CHOOSE i \in 1..10 : DigitChars[i] = ch) - 1

RECURSIVE DigitsVal(_)
DigitsVal(ds) ==
    IF ds = <<>> THEN 0
    ELSE 10 * DigitsVal(SubSeq(ds, 1, Len(ds) - 1)) + DigitVal(ds[Len(ds)])

\* Decimal(text) for texts made of digits, "." and letters: [ok, val];
\* ok = FALSE stands for decimal.InvalidOperation
ParseDecimal(text) ==
    LET dots   == SelectSeq(text, LAMBDA ch : ch = ".")
        digits == SelectSeq(text, IsDigit)
        dotAt  == CHOOSE i \in 1..Len(text) : text[i] = "."
    IN  IF \/ Len(digits) = 0
           \/ Len(dots) > 1
           \/ Len(digits) + Len(dots) # Len(text)
        THEN [ok |-> FALSE, val |-> Dec(0, 0)]
        ELSE [ok |-> TRUE,
              val |-> Dec(DigitsVal(digits),
                          IF Len(dots) = 0 THEN 0 ELSE Len(text) - dotAt)]

----------------------------------------------------------------------------
(* _parse_report_data, the filters and the sort *)

\* dict.get(key, default) on the two lookups
BidOf(kbi, id) == IF id \in DOMAIN kbi THEN kbi[id].bid ELSE Dec(0, 0)
CurrencyOf(kbi, id) == IF id \in DOMAIN kbi THEN kbi[id].currency ELSE "USD"

\* A report row is [campaign_id, campaign_name, ad_group_id, keyword_id,
\* keyword, high_share]; 0 stands for a missing id and <<>> for a missing
\* text (both falsy, like None).
ParseReportData(rows, kbi) ==
    LET kept == SelectSeq(rows, LAMBDA row : row.keyword_id # 0 /\ row.keyword # <<>>)
    IN  [i \in 1..Len(kept) |->
            [campaign_id   |-> kept[i].campaign_id,
             campaign_name |-> kept[i].campaign_name,
             ad_group_id   |-> kept[i].ad_group_id,
             keyword_id    |-> kept[i].keyword_id,
             keyword       |-> kept[i].keyword,
             current_bid   |-> BidOf(kbi, kept[i].keyword_id),
             currency      |-> CurrencyOf(kbi, kept[i].keyword_id),
             high_share    |-> kept[i].high_share]]

\* analyze: the test that skips a campaign while the lookup is built
CampaignSkipped(campaign, name) ==
    campaign # <<>> /\ ~Contains(StripStar(campaign), name)

\* analyze: the campaign filter on the parsed rows
CampaignFilter(d, campaign) ==
    IF campaign # <<>>
    THEN LET pattern == StrLower(StripStar(campaign))
         IN  SelectSeq(d, LAMBDA r : Contains(pattern, StrLower(r.campaign_name)))
    ELSE d

\* the share filter written with "<=" instead of "<"
ShareFilter_le(d, share) ==
    LET threshold == FDiv100(share)
    IN  SelectSeq(d, LAMBDA r : r.high_share # None /\ FLe(r.high_share, threshold))

\* the min_share / max_share filter
ShareFilter(d, share) ==
    LET threshold == FDiv100(share)
    IN  SelectSeq(d, LAMBDA r : r.high_share # None /\ FLt(r.high_share, threshold))

\* the filter on the suggestion left out
RaiseFilter_none(d) == d

\* optimize: keep the rows whose suggestion raises the bid
RaiseFilter(d) ==
    SelectSeq(d, LAMBDA r : DecGt(suggested_bid(r), r.current_bid))

\* key=lambda x: x.high_share or 0
SortKey(r) == IF r.high_share = None THEN FZero ELSE r.high_share

\* insert r after every element whose key is <= its key (stable)
RECURSIVE InsertSorted(_, _)
InsertSorted(s, r) ==
    IF s = <<>> THEN <<r>>
    ELSE IF FLt(SortKey(r), SortKey(s[Len(s)]))
         THEN Append(InsertSorted(SubSeq(s, 1, Len(s) - 1), r), s[Len(s)])
         ELSE Append(s, r)

RECURSIVE SortRec(_, _)
SortRec(done, todo) ==
    IF todo = <<>> THEN done
    ELSE SortRec(InsertSorted(done, Head(todo)), Tail(todo))

\* the sort left out
SortByShare_none(d) == d

\* data.sort(key=...): stable, ascending
SortByShare(d) == SortRec(<<>>, d)

\* sum(1 for d in data if d.high_share and d.high_share < 0.3)
LowShareCount(d) ==
    Len(SelectSeq(d, LAMBDA r : /\ r.high_share # None
                                /\ ~IsZero(r.high_share)
                                /\ FLt(r.high_share, F03)))

----------------------------------------------------------------------------
(* the date range *)

MaxLookback == 30

\* the clamp left out
ClampDays_none(d) == d

ClampDays(d) == IF d > MaxLookback THEN MaxLookback ELSE d

\* dates are day ordinals; today - timedelta(days=1)
EndDate(today) == today - 1

\* end_date - timedelta(days=days - 1)
StartDate(end, d) == end - (d - 1)

----------------------------------------------------------------------------
(* Evaluation of the properties on one record *)

MaxBidCoef == 4
MaxBidExp == 2

ShareValues ==
    {None, F000, F005, F010, F010next, F020, F029, F030, F030next, F040,
     F050prev, F050, F060, F100}

BidValues == {Dec(c, x) : c \in 0..MaxBidCoef, x \in 0..MaxBidExp}

NoDec == Dec(0, 0)

\* no command runs
CmdIdle ==
    /\ args = <<>>
    /\ env = <<>>
    /\ pc = "idle"
    /\ days = 0
    /\ start_date = 0
    /\ end_date = 0
    /\ report = <<>>
    /\ ci = 0
    /\ ai = 0
    /\ keywords_by_id = <<>>
    /\ keyword_paths = <<>>
    /\ parsed = <<>>
    /\ filtered = <<>>
    /\ data = <<>>
    /\ idx = 0
    /\ updates_made = 0
    /\ updates_skipped = 0
    /\ log = <<>>

InitBid ==
    /\ rec \in [current_bid : BidValues, currency : {"USD"},
                high_share : ShareValues]
    /\ sug = NoDec
    /\ sugStr = <<>>
    /\ bpc = "in"
    /\ CmdIdle

EvalSuggestedBid ==
    /\ bpc = "in"
    /\ sug' = suggested_bid(rec)
    /\ bpc' = "bid"
    /\ UNCHANGED <<rec, sugStr, cmdVars>>

EvalSuggestedBidStr ==
    /\ bpc = "bid"
    /\ sugStr' = suggested_bid_str(rec)
    /\ bpc' = "str"
    /\ UNCHANGED <<rec, sug, cmdVars>>

NextBid == EvalSuggestedBid \/ EvalSuggestedBidStr

SpecBid == InitBid /\ [][NextBid]_vars

----------------------------------------------------------------------------
(* The inputs of a command invocation *)

MaxDays == 32       \* --days ranges over -1..MaxDays
MaxRows == 2        \* rows of the generated reports
MaxCamps == 2       \* campaigns of the generated accounts

Money(amount, currency) == [amount |-> amount, currency |-> currency]

\* a keyword of the account; bid_amount is <<>> (None) or <<Money>>
Kw(id, text, bid_amount) == [id |-> id, text |-> text, bid_amount |-> bid_amount]

Usd100 == <<Money(<<"1", ".", "0", "0">>, "USD")>>
Eur25  == <<Money(<<"2", ".", "5">>, "EUR")>>
Usd050 == <<Money(<<"0", ".", "5", "0">>, "USD")>>

\* an account with two ad groups in a campaign, two keywords in an ad
\* group, a keyword without a bid and a campaign without ad groups
RichAccount ==
    << [id |-> 1, name |-> <<"B", "x">>,
        ad_groups |-> << [id |-> 11, keywords |-> << Kw(1, <<"k">>, Usd100),
                                                     Kw(2, <<"k">>, Eur25) >>],
                         [id |-> 12, keywords |-> << Kw(3, <<"k">>, <<>>) >>] >>],
       [id |-> 2, name |-> <<"x">>, ad_groups |-> <<>>],
       [id |-> 3, name |-> <<"b">>,
        ad_groups |-> << [id |-> 31, keywords |-> << Kw(4, <<"k">>, Usd050) >>] >>] >>

CampNames == {<<"B", "x">>, <<"b">>, <<"x">>}

\* campaign c of a generated account: one ad group with one keyword
GenCampaign(c, name, bid_amount) ==
    [id |-> c, name |-> name,
     ad_groups |-> << [id |-> 10 * c, keywords |-> << Kw(c, <<"k">>, bid_amount) >>] >>]

GenAccounts ==
    UNION { { [c \in 1..n |-> GenCampaign(c, nm[c], bd[c])] :
                nm \in [1..n -> CampNames], bd \in [1..n -> {<<>>, Usd100}] } :
            n \in 0..MaxCamps }

\* the report row of keyword k of ad group g of campaign c
RowOf(c, g, k, share) ==
    [campaign_id |-> c.id, campaign_name |-> c.name, ad_group_id |-> g.id,
     keyword_id |-> k.id, keyword |-> k.text, high_share |-> share]

\* a row for a keyword the account no longer lists, and a row without keyword
GoneRow == [campaign_id |-> 1, campaign_name |-> <<"b">>, ad_group_id |-> 10,
            keyword_id |-> 9, keyword |-> <<"k">>, high_share |-> F005]
TotalRow == [campaign_id |-> 1, campaign_name |-> <<"b">>, ad_group_id |-> 0,
             keyword_id |-> 0, keyword |-> <<>>, high_share |-> F005]

\* one row per keyword of a generated account, then the two odd rows
GenRows(account) ==
    [i \in 1..Len(account) |->
        RowOf(account[i], account[i].ad_groups[1],
              account[i].ad_groups[1].keywords[1], F020)]
    \o <<GoneRow, TotalRow>>

\* the keywords of RichAccount with a bid, as (campaign, ad group, keyword)
RichSlots == << <<1, 1, 1>>, <<1, 1, 2>>, <<3, 1, 1>> >>

RichRow(i, share) ==
    LET slot == RichSlots[((i - 1) % Len(RichSlots)) + 1]
        c    == RichAccount[slot[1]]
        g    == c.ad_groups[slot[2]]
        k    == g.keywords[slot[3]]
    IN  [RowOf(c, g, k, share) EXCEPT !.keyword_id = IF i > Len(RichSlots) THEN 4 + i ELSE @]

RowShares == {None, F005, F030, F030next, F050}

\* reports on RichAccount: row i is about the i-th keyword, any share
RichReports ==
    UNION { { [i \in 1..n |-> RichRow(i, sh[i])] : sh \in [1..n -> RowShares] } :
            n \in 0..MaxRows }

FixedReport == << RichRow(1, F040), RichRow(2, F005) >>

Today == {738000}

Patterns == {<<>>, <<"b">>, <<"B", "*">>, <<"*">>}

ShareArgs == {FromInt(30), FromInt(50), FromInt(80)}

DefaultMaxShare == FromInt(50)

CustomTexts == {<<"2", ".", "5">>, <<"x">>}

Args(cmd, d, country, share, campaign, dry, output) ==
    [cmd |-> cmd, days |-> d, country |-> country, share |-> share,
     campaign |-> campaign, dry_run |-> dry, output |-> output]

\* the share option: --min-share (default None) or --max-share (default 50)
ShareChoices(cmd) ==
    CASE cmd = "analyze"  -> ShareArgs \cup {None}
      [] cmd = "optimize" -> ShareArgs
      [] OTHER            -> {None}

DryChoices(cmd) == IF cmd = "optimize" THEN BOOLEAN ELSE {FALSE}

\* --output (report only): None or a file name
OutputChoices(cmd) == IF cmd = "report" THEN {<<>>, <<"f">>} ELSE {<<>>}

DefaultShare(cmd) == IF cmd = "optimize" THEN DefaultMaxShare ELSE None

Cmds == {"analyze", "optimize", "report"}

\* any --days and --country, on a fixed account and report
InputsDates ==
    UNION { { <<Args(cmd, d, country, DefaultShare(cmd), <<>>, dry, output),
                [today |-> t, account |-> RichAccount, rows |-> FixedReport]>> :
              d \in (-1)..MaxDays, country \in {<<>>, <<"u", "s">>}, t \in Today,
              dry \in DryChoices(cmd), output \in OutputChoices(cmd) } :
            cmd \in Cmds }

\* any report and share option, on a fixed account
InputsRows ==
    UNION { { <<Args(cmd, 7, <<>>, share, <<>>, dry, output),
                [today |-> t, account |-> RichAccount, rows |-> rows]>> :
              share \in ShareChoices(cmd), dry \in DryChoices(cmd),
              output \in OutputChoices(cmd), rows \in RichReports, t \in Today } :
            cmd \in Cmds }

\* any generated account and --campaign pattern
InputsAccounts ==
    UNION { { <<Args(cmd, 7, <<>>, DefaultShare(cmd), campaign, dry, <<>>),
                [today |-> t, account |-> account, rows |-> GenRows(account)]>> :
              campaign \in (IF cmd = "analyze" THEN Patterns ELSE {<<>>}),
              dry \in DryChoices(cmd), account \in GenAccounts, t \in Today } :
            cmd \in {"analyze", "optimize"} }

Inputs == InputsDates \cup InputsRows \cup InputsAccounts

----------------------------------------------------------------------------
(* The commands *)

Init ==
    /\ \E in \in Inputs :
        /\ args = in[1]
        /\ env = in[2]
    /\ pc = "start"
    /\ days = args.days
    /\ start_date = 0
    /\ end_date = 0
    /\ report = <<>>
    /\ ci = 0
    /\ ai = 0
    /\ keywords_by_id = <<>>
    /\ keyword_paths = <<>>
    /\ parsed = <<>>
    /\ filtered = <<>>
    /\ data = <<>>
    /\ idx = 0
    /\ updates_made = 0
    /\ updates_skipped = 0
    /\ log = <<>>
    /\ rec = <<>>
    /\ sug = NoDec
    /\ sugStr = <<>>
    /\ bpc = "off"

\* where a command goes after handle_api_error(e): it returns
PcAfterApiError_fallthrough == "parse"

PcAfterApiError == "done"

\* [country.upper()] if country else None
CountryCodes(country) == IF country # <<>> THEN <<StrUpper(country)>> ELSE None

\* lines 201-209 of analyze, 324-332 of optimize, 491-499 of report
ValidateDays ==
    /\ pc = "start"
    /\ days' = ClampDays(days)
    /\ end_date' = EndDate(env.today)
    /\ start_date' = StartDate(end_date', days')
    /\ log' = IF days > MaxLookback THEN Append(log, <<"warn", "max30">>) ELSE log
    /\ pc' = "report"
    /\ UNCHANGED <<args, env, report, ci, ai, keywords_by_id, keyword_paths,
                   parsed, filtered, data, idx, updates_made, updates_skipped,
                   bidVars>>

\* client.custom_reports.get_impression_share(...) and the test that follows
FetchReport(ok) ==
    /\ pc = "report"
    /\ LET call == <<"api", "report", start_date, end_date,
                     CountryCodes(args.country), ok>>
       IN  IF ~ok
           THEN /\ log' = log \o <<call, <<"handler">>>>
                /\ pc' = PcAfterApiError
                /\ report' = report
           ELSE /\ report' = env.rows
                /\ IF env.rows = <<>>
                   THEN /\ log' = log \o <<call, <<"warn", "nodata">>>>
                        /\ pc' = "done"
                   ELSE /\ log' = log \o
                             (IF args.cmd = "optimize"
                              THEN <<call>>
                              ELSE <<call, <<"success", "retrieved", Len(env.rows)>>>>)
                        /\ pc' = IF args.cmd = "report" THEN "export" ELSE "campaigns"
    /\ UNCHANGED <<args, env, days, start_date, end_date, ci, ai, keywords_by_id,
                   keyword_paths, parsed, filtered, data, idx, updates_made,
                   updates_skipped, bidVars>>

\* the first campaign from index c on that the lookup loop does not skip
\* (only analyze skips campaigns, by its --campaign pattern)
RECURSIVE NextCamp(_)
NextCamp(c) ==
    IF c > Len(env.account) THEN c
    ELSE IF args.cmd = "analyze" /\ CampaignSkipped(args.campaign, env.account[c].name)
         THEN NextCamp(c + 1)
         ELSE c

PcAtCamp(c) == IF c > Len(env.account) THEN "parse" ELSE "adgroups"

\* client.campaigns.list(limit=1000)
ListCampaigns(ok) ==
    /\ pc = "campaigns"
    /\ IF ~ok
       THEN /\ log' = log \o << <<"api", "campaigns", ok>>, <<"handler">> >>
            /\ pc' = PcAfterApiError
            /\ ci' = ci
       ELSE /\ log' = Append(log, <<"api", "campaigns", ok>>)
            /\ ci' = NextCamp(1)
            /\ pc' = PcAtCamp(ci')
    /\ UNCHANGED <<args, env, days, start_date, end_date, report, ai,
                   keywords_by_id, keyword_paths, parsed, filtered, data, idx,
                   updates_made, updates_skipped, bidVars>>

\* client.campaigns(camp.id).ad_groups.list(limit=1000)
ListAdGroups(ok) ==
    /\ pc = "adgroups"
    /\ LET camp == env.account[ci]
           call == <<"api", "ad_groups", camp.id, ok>>
       IN  IF ~ok
           THEN /\ log' = log \o <<call, <<"handler">>>>
                /\ pc' = PcAfterApiError
                /\ UNCHANGED <<ci, ai>>
           ELSE /\ log' = Append(log, call)
                /\ IF camp.ad_groups = <<>>
                   THEN /\ ci' = NextCamp(ci + 1)
                        /\ ai' = ai
                        /\ pc' = PcAtCamp(ci')
                   ELSE /\ ci' = ci
                        /\ ai' = 1
                        /\ pc' = "keywords"
    /\ UNCHANGED <<args, env, days, start_date, end_date, report,
                   keywords_by_id, keyword_paths, parsed, filtered, data, idx,
                   updates_made, updates_skipped, bidVars>>

\* the keywords of a listing that have a bid, as a lookup (a later keyword
\* with the same id replaces an earlier one); the bid amounts are decimal
\* strings
RECURSIVE BidEntries(_)
BidEntries(kws) ==
    IF kws = <<>> THEN <<>>
    ELSE LET kw   == kws[Len(kws)]
             rest == BidEntries(SubSeq(kws, 1, Len(kws) - 1))
         IN  IF kw.bid_amount # <<>>
             THEN (kw.id :> [bid      |-> ParseDecimal(kw.bid_amount[1].amount).val,
                             currency |-> kw.bid_amount[1].currency]) @@ rest
             ELSE rest

\* client.campaigns(camp.id).ad_groups(ag.id).keywords.list(limit=1000) and
\* the loop over its keywords
ListKeywords(ok) ==
    /\ pc = "keywords"
    /\ LET camp == env.account[ci]
           ag   == camp.ad_groups[ai]
           call == <<"api", "keywords", camp.id, ag.id, ok>>
           new  == BidEntries(ag.keywords)
       IN  IF ~ok
           THEN /\ log' = log \o <<call, <<"handler">>>>
                /\ pc' = PcAfterApiError
                /\ UNCHANGED <<ci, ai, keywords_by_id, keyword_paths>>
           ELSE /\ log' = Append(log, call)
                /\ keywords_by_id' = new @@ keywords_by_id
                /\ keyword_paths' =
                       IF args.cmd = "optimize"
                       THEN [k \in DOMAIN new |-> <<camp.id, ag.id>>] @@ keyword_paths
                       ELSE keyword_paths
                /\ IF ai < Len(camp.ad_groups)
                   THEN /\ ai' = ai + 1
                        /\ ci' = ci
                        /\ pc' = "keywords"
                   ELSE /\ ci' = NextCamp(ci + 1)
                        /\ ai' = ai
                        /\ pc' = PcAtCamp(ci')
    /\ UNCHANGED <<args, env, days, start_date, end_date, report, parsed,
                   filtered, data, idx, updates_made, updates_skipped, bidVars>>

\* analyze, lines 260-285
AnalyzeRows ==
    /\ pc = "parse"
    /\ args.cmd = "analyze"
    /\ parsed' = ParseReportData(report, keywords_by_id)
    /\ filtered' = IF args.share # None
                   THEN ShareFilter(CampaignFilter(parsed', args.campaign), args.share)
                   ELSE CampaignFilter(parsed', args.campaign)
    /\ data' = SortByShare(filtered')
    /\ log' = IF filtered' = <<>>
              THEN Append(log, <<"warn", "nomatch">>)
              ELSE log \o << <<"table", data'>>,
                             <<"info", "totals", Len(data'), LowShareCount(data')>> >>
    /\ pc' = "done"
    /\ UNCHANGED <<args, env, days, start_date, end_date, report, ci, ai,
                   keywords_by_id, keyword_paths, idx, updates_made,
                   updates_skipped, bidVars>>

\* optimize, lines 377-394
OptimizeRows ==
    /\ pc = "parse"
    /\ args.cmd = "optimize"
    /\ parsed' = ParseReportData(report, keywords_by_id)
    /\ filtered' = ShareFilter(parsed', args.share)
    /\ data' = SortByShare(RaiseFilter(filtered'))
    /\ IF data' = <<>>
       THEN /\ log' = Append(log, <<"success", "none_needed">>)
            /\ pc' = "done"
            /\ idx' = idx
       ELSE /\ log' = Append(log, <<"info", "found", Len(data')>>)
            /\ pc' = "present"
            /\ idx' = 1
    /\ updates_made' = 0
    /\ updates_skipped' = 0
    /\ UNCHANGED <<args, env, days, start_date, end_date, report, ci, ai,
                   keywords_by_id, keyword_paths, bidVars>>

\* the dry-run test of the walkthrough left out
DryRunSkips_never(dry_run) == FALSE

\* "if dry_run: ... continue"
DryRunSkips(dry_run) == dry_run

\* updates_made counted before the update call is known to have succeeded
MadeAfterUpdate_always(made, ok) == made + 1

\* "updates_made += 1" follows the update call inside the try block
MadeAfterUpdate(made, ok) == IF ok THEN made + 1 ELSE made

\* the for loop moves on to the next keyword, or ends
PcAfterKeyword(i) == IF i + 1 > Len(data) THEN "summary" ELSE "present"

\* lines 396-408: the keyword is displayed; a dry run goes on to the next
Present ==
    /\ pc = "present"
    /\ LET kw   == data[idx]
           show == <<"present", idx, kw, suggested_bid_str(kw)>>
       IN  IF DryRunSkips(args.dry_run)
           THEN /\ log' = log \o <<show, <<"dry">>>>
                /\ idx' = idx + 1
                /\ pc' = PcAfterKeyword(idx)
           ELSE /\ log' = Append(log, show)
                /\ idx' = idx
                /\ pc' = "prompt"
    /\ UNCHANGED <<args, env, days, start_date, end_date, report, ci, ai,
                   keywords_by_id, keyword_paths, parsed, filtered, data,
                   updates_made, updates_skipped, bidVars>>

\* the events of keywords.update(...) for keyword kw with the given amount
UpdateEvents(kw, amount, ok) ==
    LET path == keyword_paths[kw.keyword_id]
        call == <<"api", "update", path[1], path[2], kw.keyword_id, amount,
                  kw.currency, ok>>
    IN  IF ok
        THEN <<call, <<"success", "updated", DecFormat2f(amount), kw.currency>>>>
        ELSE <<call, <<"error", "update">>>>

\* action "q": break
ActQuit ==
    /\ pc = "prompt"
    /\ log' = log \o << <<"prompt", "q">>, <<"info", "stopping">> >>
    /\ pc' = "summary"
    /\ UNCHANGED <<args, env, days, start_date, end_date, report, ci, ai,
                   keywords_by_id, keyword_paths, parsed, filtered, data, idx,
                   updates_made, updates_skipped, bidVars>>

\* action "n" (the else branch)
ActSkip ==
    /\ pc = "prompt"
    /\ log' = Append(log, <<"prompt", "n">>)
    /\ updates_skipped' = updates_skipped + 1
    /\ idx' = idx + 1
    /\ pc' = PcAfterKeyword(idx)
    /\ UNCHANGED <<args, env, days, start_date, end_date, report, ci, ai,
                   keywords_by_id, keyword_paths, parsed, filtered, data,
                   updates_made, bidVars>>

\* action "y": apply the suggested bid; ok = FALSE: the update call raises
ActAccept(ok) ==
    /\ pc = "prompt"
    /\ LET kw == data[idx]
       IN  IF kw.keyword_id \in DOMAIN keyword_paths
           THEN /\ log' = log \o << <<"prompt", "y">> >>
                              \o UpdateEvents(kw, suggested_bid(kw), ok)
                /\ updates_made' = MadeAfterUpdate(updates_made, ok)
           ELSE /\ log' = Append(log, <<"prompt", "y">>)
                /\ updates_made' = updates_made
    /\ idx' = idx + 1
    /\ pc' = PcAfterKeyword(idx)
    /\ UNCHANGED <<args, env, days, start_date, end_date, report, ci, ai,
                   keywords_by_id, keyword_paths, parsed, filtered, data,
                   updates_skipped, bidVars>>

\* action "c": ask for a custom bid, parse it and apply it
ActCustom(text, ok) ==
    /\ pc = "prompt"
    /\ LET kw     == data[idx]
           asked  == << <<"prompt", "c">>, <<"ask_custom", text>> >>
           custom == ParseDecimal(text)
       IN  IF ~custom.ok
           THEN /\ log' = log \o asked \o << <<"error", "update">> >>
                /\ updates_made' = updates_made
           ELSE IF kw.keyword_id \in DOMAIN keyword_paths
           THEN /\ log' = log \o asked \o UpdateEvents(kw, custom.val, ok)
                /\ updates_made' = MadeAfterUpdate(updates_made, ok)
           ELSE /\ log' = log \o asked
                /\ updates_made' = updates_made
    /\ idx' = idx + 1
    /\ pc' = PcAfterKeyword(idx)
    /\ UNCHANGED <<args, env, days, start_date, end_date, report, ci, ai,
                   keywords_by_id, keyword_paths, parsed, filtered, data,
                   updates_skipped, bidVars>>

\* lines 462-463
Summary ==
    /\ pc = "summary"
    /\ log' = Append(log, <<"summary", updates_made, updates_skipped>>)
    /\ pc' = "done"
    /\ UNCHANGED <<args, env, days, start_date, end_date, report, ci, ai,
                   keywords_by_id, keyword_paths, parsed, filtered, data, idx,
                   updates_made, updates_skipped, bidVars>>

DisplayLimit == 50

CsvRow(row) ==
    <<row.campaign_id, row.campaign_name, row.ad_group_id, row.keyword_id,
      row.keyword, row.high_share>>

\* report --output: the header row and one row per record; ok = FALSE: the
\* file cannot be written
ExportCsv(ok) ==
    /\ pc = "export"
    /\ args.output # <<>>
    /\ log' = IF ok
              THEN log \o << <<"csv", <<"header">>,
                               [i \in 1..Len(report) |-> CsvRow(report[i])]>>,
                             <<"success", "saved">> >>
              ELSE Append(log, <<"error", "export">>)
    /\ pc' = "done"
    /\ UNCHANGED <<args, env, days, start_date, end_date, report, ci, ai,
                   keywords_by_id, keyword_paths, parsed, filtered, data, idx,
                   updates_made, updates_skipped, bidVars>>

\* report without --output: the first 50 rows
DisplaySummary ==
    /\ pc = "export"
    /\ args.output = <<>>
    /\ LET shown == IF Len(report) > DisplayLimit THEN DisplayLimit ELSE Len(report)
           table == <<"table", [i \in 1..shown |-> CsvRow(report[i])]>>
       IN  log' = IF Len(report) > DisplayLimit
                  THEN log \o <<table, <<"info", "first50", Len(report)>>>>
                  ELSE Append(log, table)
    /\ pc' = "done"
    /\ UNCHANGED <<args, env, days, start_date, end_date, report, ci, ai,
                   keywords_by_id, keyword_paths, parsed, filtered, data, idx,
                   updates_made, updates_skipped, bidVars>>

Next ==
    \/ ValidateDays
    \/ FetchReport(TRUE)
    \/ FetchReport(FALSE)
    \/ ListCampaigns(TRUE)
    \/ ListCampaigns(FALSE)
    \/ ListAdGroups(TRUE)
    \/ ListAdGroups(FALSE)
    \/ ListKeywords(TRUE)
    \/ ListKeywords(FALSE)
    \/ AnalyzeRows
    \/ OptimizeRows
    \/ Present
    \/ ActQuit
    \/ ActSkip
    \/ ActAccept(TRUE)
    \/ ActAccept(FALSE)
    \/ \E text \in CustomTexts : ActCustom(text, TRUE) \/ ActCustom(text, FALSE)
    \/ Summary
    \/ ExportCsv(TRUE)
    \/ ExportCsv(FALSE)
    \/ DisplaySummary

Spec == Init /\ [][Next]_vars

----------------------------------------------------------------------------
(* Claims about suggested_bid and suggested_bid_str (under SpecBid) *)

BidPositive == DecGt(rec.current_bid, NoDec)

Times(d, hundredths) == DecMul(d, Dec(hundredths, 2))

\* C1 as stated: for current_bid > 0 and 0.30 < high_share <= 0.50 the
\* suggested bid equals current_bid x 1.10.
C1_AsStated ==
    (/\ bpc # "in"
     /\ BidPositive
     /\ rec.high_share # None
     /\ FGt(rec.high_share, F030)
     /\ FLe(rec.high_share, F050))
    => DecEq(sug, Times(rec.current_bid, 110))

\* C1 amended: for current_bid > 0 and 0.30 < high_share < 0.50 the
\* suggested bid equals current_bid x 1.10 (at exactly 0.50 the bid is
\* left unchanged).
C1_TierTen ==
    /\ (/\ bpc # "in"
        /\ BidPositive
        /\ rec.high_share # None
        /\ FGt(rec.high_share, F030)
        /\ FLt(rec.high_share, F050))
       => DecEq(sug, Times(rec.current_bid, 110))
    /\ (bpc # "in" /\ rec.high_share = F050) => sug = rec.current_bid

C1_Witness ==
    /\ bpc = "bid"
    /\ BidPositive
    /\ rec.high_share = F050prev
    /\ DecEq(sug, Times(rec.current_bid, 110))
    /\ ~DecEq(sug, rec.current_bid)

\* C2: when high_share is None or >= 0.50 the suggested bid is the current
\* bid itself and suggested_bid_str is "-"; and suggested_bid_str is "-"
\* only when the suggested bid equals the current bid.
C2_NoChange ==
    /\ (bpc # "in" /\ (rec.high_share = None \/ FGe(rec.high_share, F050)))
       => sug = rec.current_bid
    /\ (bpc = "str" /\ (rec.high_share = None \/ FGe(rec.high_share, F050)))
       => sugStr = <<"-">>
    /\ (bpc = "str" /\ sugStr = <<"-">>) => DecEq(sug, rec.current_bid)

C2_Witness ==
    /\ bpc = "str"
    /\ BidPositive
    /\ rec.high_share = F050
    /\ sug = rec.current_bid
    /\ sugStr = <<"-">>

\* C3: for a known high_share <= 0.10 the suggested bid is current_bid x
\* 1.50, and for 0.10 < high_share <= 0.30 it is current_bid x 1.25; for a
\* positive bid no other multiplier's value is returned.
C3_LowTiers ==
    (bpc # "in" /\ rec.high_share # None) =>
        /\ FLe(rec.high_share, F010)
           => /\ DecEq(sug, Times(rec.current_bid, 150))
              /\ BidPositive => /\ ~DecEq(sug, Times(rec.current_bid, 125))
                                /\ ~DecEq(sug, Times(rec.current_bid, 110))
                                /\ ~DecEq(sug, rec.current_bid)
        /\ (FGt(rec.high_share, F010) /\ FLe(rec.high_share, F030))
           => /\ DecEq(sug, Times(rec.current_bid, 125))
              /\ BidPositive => /\ ~DecEq(sug, Times(rec.current_bid, 150))
                                /\ ~DecEq(sug, Times(rec.current_bid, 110))
                                /\ ~DecEq(sug, rec.current_bid)

C3_Witness ==
    /\ bpc = "bid"
    /\ BidPositive
    /\ rec.high_share = F030
    /\ DecEq(sug, Times(rec.current_bid, 125))

----------------------------------------------------------------------------
(* Claims about the commands (under Spec) *)

LogIdx == 1..Len(log)

IsReportCall(e) == e[1] = "api" /\ e[2] = "report"
IsUpdateCall(e) == e[1] = "api" /\ e[2] = "update"
IsApiCall(e)    == e[1] = "api"
IsPresent(e)    == e[1] = "present"
IsPrompt(e, a)  == e[1] = "prompt" /\ e[2] = a
IsAsk(e)        == e[1] = "ask_custom"
IsHandler(e)    == e = <<"handler">>
IsUpdateError(e) == e = <<"error", "update">>
CallOk(e)       == e[Len(e)]

MaxWarned == \E p \in LogIdx : log[p] = <<"warn", "max30">>

\* C4: in every command the report is requested for end_date = today - 1
\* and start_date = end_date - (d - 1), with d = 30 when days > 30 and
\* d = days otherwise; the inclusive range never spans more than 30 days;
\* the warning is emitted exactly when days > 30.
C4_DateRange ==
    /\ \A p \in LogIdx :
         IsReportCall(log[p]) =>
            LET d == IF args.days > 30 THEN 30 ELSE args.days
            IN  /\ log[p][4] = env.today - 1
                /\ log[p][3] = log[p][4] - (d - 1)
                /\ log[p][4] - log[p][3] + 1 <= 30
    /\ pc # "start" => (MaxWarned <=> args.days > 30)

C4_Witness ==
    /\ args.cmd = "report"
    /\ args.days = 32
    /\ MaxWarned
    /\ \E p \in LogIdx : /\ IsReportCall(log[p])
                         /\ log[p][4] - log[p][3] + 1 = 30
                         /\ log[p][4] = env.today - 1

\* the double nearest to T/100 for the share options used
ThresholdOf(share) ==
    CASE share = FromInt(10) -> F010
      [] share = FromInt(30) -> F030
      [] share = FromInt(50) -> F050
      [] share = FromInt(80) -> F080

Below(r, threshold) == r.high_share # None /\ FLt(r.high_share, threshold)

\* the rows the share filter is applied to
ShareFilterInput ==
    IF args.cmd = "analyze" THEN CampaignFilter(parsed, args.campaign) ELSE parsed

\* C5: with a share threshold T (min_share of analyze, max_share of
\* optimize) every row that survives the filter has a known high_share
\* strictly below T/100, and every row with a known high_share strictly
\* below T/100 is kept by the filter.
C5_ShareFilter ==
    (args.cmd \in {"analyze", "optimize"} /\ args.share # None /\ parsed # <<>>) =>
        LET threshold == ThresholdOf(args.share)
            input     == ShareFilterInput
        IN  /\ \A i \in 1..Len(filtered) : Below(filtered[i], threshold)
            /\ \A i \in 1..Len(data) : Below(data[i], threshold)
            /\ \A i \in 1..Len(input) :
                  Below(input[i], threshold)
                  => \E j \in 1..Len(filtered) : filtered[j] = input[i]

C5_Witness ==
    /\ args.cmd = "analyze"
    /\ args.share = FromInt(30)
    /\ pc = "done"
    /\ Len(parsed) = 2
    /\ parsed[1].high_share = F030
    /\ parsed[2].high_share = F005
    /\ Len(filtered) = 1
    /\ filtered[1] = parsed[2]

\* the walkthrough event at or before position p that shows a keyword: the
\* keyword shown last
RECURSIVE ShownBefore(_)
ShownBefore(p) == IF IsPresent(log[p]) THEN log[p] ELSE ShownBefore(p - 1)

UpdateFor(e, shown) == IsUpdateCall(e) /\ e[5] = shown[3].keyword_id

Presents == SelectSeq(log, IsPresent)

\* the keywords are shown one at a time, in ascending high_share order, each
\* followed by its prompt
ShownInOrder ==
    LET shown == Presents
    IN  /\ \A j \in 1..Len(shown) :
              /\ shown[j][2] = j
              /\ \A k \in (j + 1)..Len(shown) :
                    ~FLt(SortKey(shown[k][3]), SortKey(shown[j][3]))
        /\ \A p \in LogIdx :
              (IsPresent(log[p]) /\ p < Len(log)) => log[p + 1][1] = "prompt"

\* every update call directly follows the "y" prompt, or the custom bid
\* prompt, of the keyword shown last: at most one per keyword shown
UpdateFollowsPrompt ==
    \A p \in LogIdx :
        IsUpdateCall(log[p]) =>
            /\ p >= 3
            /\ UpdateFor(log[p], ShownBefore(p))
            /\ \/ IsPrompt(log[p - 1], "y") /\ IsPresent(log[p - 2])
               \/ /\ p >= 4
                  /\ IsAsk(log[p - 1])
                  /\ IsPrompt(log[p - 2], "c")
                  /\ IsPresent(log[p - 3])

AcceptUpdates ==
    \A p \in LogIdx :
        IsPrompt(log[p], "y") =>
            p < Len(log) /\ UpdateFor(log[p + 1], ShownBefore(p))

SkipUpdatesNothing ==
    \A p \in LogIdx :
        (IsPrompt(log[p], "n") /\ p < Len(log)) =>
            IsPresent(log[p + 1]) \/ log[p + 1][1] = "summary"

QuitEnds ==
    \A p \in LogIdx :
        IsPrompt(log[p], "q") =>
            /\ pc \in {"summary", "done"}
            /\ \A r \in (p + 1)..Len(log) : log[r][1] \in {"info", "summary"}

\* C6 as stated: every custom ("c") action issues the update call
C6_AsStated ==
    (args.cmd = "optimize" /\ ~args.dry_run) =>
        /\ ShownInOrder
        /\ UpdateFollowsPrompt
        /\ AcceptUpdates
        /\ SkipUpdatesNothing
        /\ QuitEnds
        /\ \A p \in LogIdx :
              IsPrompt(log[p], "c") =>
                  p + 1 < Len(log) /\ UpdateFor(log[p + 2], ShownBefore(p))

\* C6 amended: in optimize without dry-run the candidates are shown one at
\* a time in ascending high_share order; an accept ("y"), or a custom ("c")
\* action whose text parses as a decimal, issues the update call for that
\* keyword before the next keyword is shown; a custom action whose text
\* does not parse issues none; a skip ("n") issues none; after a quit ("q")
\* nothing more is shown or updated; at most one update call is issued per
\* keyword shown.
C6_Walkthrough ==
    (args.cmd = "optimize" /\ ~args.dry_run) =>
        /\ ShownInOrder
        /\ UpdateFollowsPrompt
        /\ AcceptUpdates
        /\ SkipUpdatesNothing
        /\ QuitEnds
        /\ \A p \in LogIdx :
              IsPrompt(log[p], "c") =>
                  /\ p < Len(log)
                  /\ IsAsk(log[p + 1])
                  /\ IF ParseDecimal(log[p + 1][2]).ok
                     THEN p + 1 < Len(log) /\ UpdateFor(log[p + 2], ShownBefore(p))
                     ELSE p + 1 < Len(log) /\ IsUpdateError(log[p + 2])

C6_Witness ==
    /\ args.cmd = "optimize"
    /\ ~args.dry_run
    /\ pc = "done"
    /\ report = FixedReport
    /\ Len(Presents) = 2
    /\ Presents[1][3].high_share = F005
    /\ Presents[2][3].high_share = F040
    /\ \E p \in LogIdx : IsPrompt(log[p], "y") /\ IsUpdateCall(log[p + 1])
    /\ \E p \in LogIdx : IsPrompt(log[p], "c") /\ IsUpdateCall(log[p + 2])

OkUpdates == SelectSeq(log, LAMBDA e : IsUpdateCall(e) /\ CallOk(e))

UpdatedNotes == SelectSeq(log, LAMBDA e : e[1] = "success" /\ e[2] = "updated")

\* a failure of the walkthrough at position p: an update call that raised,
\* or a custom bid text that does not parse
IsLoopFailure(p) ==
    \/ IsUpdateCall(log[p]) /\ ~CallOk(log[p])
    \/ IsAsk(log[p]) /\ ~ParseDecimal(log[p][2]).ok

\* C7: when the update call raises or the custom bid text does not parse,
\* the failure is reported, updates_made is not incremented and no update
\* is recorded, and the loop goes on with the next keyword of the list.
C7_FailureContinues ==
    /\ updates_made = Len(OkUpdates)
    /\ Len(UpdatedNotes) = Len(OkUpdates)
    /\ \A p \in LogIdx :
          IsLoopFailure(p) =>
             LET j == ShownBefore(p)[2]
             IN  /\ p < Len(log)
                 /\ IsUpdateError(log[p + 1])
                 /\ IF p + 1 = Len(log)
                    THEN IF j < Len(data)
                         THEN pc = "present" /\ idx = j + 1
                         ELSE pc = "summary"
                    ELSE IF j < Len(data)
                         THEN IsPresent(log[p + 2]) /\ log[p + 2][2] = j + 1
                         ELSE log[p + 2][1] = "summary"

C7_Witness ==
    /\ pc = "done"
    /\ updates_made = 1
    /\ \E p \in LogIdx :
          /\ IsUpdateCall(log[p]) /\ ~CallOk(log[p])
          /\ \E r \in (p + 1)..Len(log) :
                /\ IsUpdateCall(log[r]) /\ CallOk(log[r])
                /\ log[r][5] # log[p][5]

\* C8: with dry_run no update call is issued and no prompt is shown; every
\* candidate is still displayed and the summary reports 0 updated, 0
\* skipped.
C8_DryRun ==
    (args.cmd = "optimize" /\ args.dry_run) =>
        /\ \A p \in LogIdx :
              /\ ~IsUpdateCall(log[p])
              /\ log[p][1] \notin {"prompt", "ask_custom"}
        /\ (pc = "done" /\ data # <<>>) =>
              LET shown == Presents
              IN  /\ Len(shown) = Len(data)
                  /\ \A j \in 1..Len(data) : shown[j][3] = data[j]
                  /\ log[Len(log)] = <<"summary", 0, 0>>

C8_Witness ==
    /\ args.cmd = "optimize"
    /\ args.dry_run
    /\ pc = "done"
    /\ Len(data) = 2
    /\ Len(Presents) = 2
    /\ log[Len(log)] = <<"summary", 0, 0>>

\* C9 as stated: an exception of any API call, the keyword bid update
\* included, goes to the shared handler and ends the command
C9_AsStated ==
    \A p \in LogIdx :
        (IsApiCall(log[p]) /\ ~CallOk(log[p])) =>
            /\ p + 1 = Len(log)
            /\ IsHandler(log[p + 1])
            /\ pc = "done"

\* C9 amended: an exception raised by report generation or by the
\* campaign, ad-group or keyword listing is caught, passed to the shared
\* handler, and the command returns with no further API call, prompt or
\* output; the handler runs for nothing else.  An exception raised by a
\* keyword bid update is reported as "Update failed" instead and the
\* command does not return.
C9_ApiErrors ==
    /\ \A p \in LogIdx :
          (IsApiCall(log[p]) /\ ~IsUpdateCall(log[p]) /\ ~CallOk(log[p])) =>
              /\ p + 1 = Len(log)
              /\ IsHandler(log[p + 1])
              /\ pc = "done"
    /\ \A p \in LogIdx :
          IsHandler(log[p]) =>
              p > 1 /\ IsApiCall(log[p - 1]) /\ ~IsUpdateCall(log[p - 1])
                    /\ ~CallOk(log[p - 1])
    /\ \A p \in LogIdx :
          (IsUpdateCall(log[p]) /\ ~CallOk(log[p])) =>
              p < Len(log) /\ IsUpdateError(log[p + 1])

C9_Witness ==
    /\ pc = "done"
    /\ Len(log) >= 4
    /\ IsHandler(log[Len(log)])
    /\ log[Len(log) - 1][2] = "keywords"
    /\ parsed = <<>>

\* the keywords of the account that have a set bid
AccountBidKeywords ==
    UNION { UNION { { env.account[c].ad_groups[g].keywords[k] :
                        k \in { k \in 1..Len(env.account[c].ad_groups[g].keywords) :
                                  env.account[c].ad_groups[g].keywords[k].bid_amount # <<>> } } :
                    g \in 1..Len(env.account[c].ad_groups) } :
            c \in 1..Len(env.account) }

\* C10: in analyze every row that passes the campaign-name filter and whose
\* keyword has a set bid in the account carries that keyword's bid amount
\* and currency.
C10_AsStated ==
    (args.cmd = "analyze" /\ pc = "done") =>
        \A i \in 1..Len(data) :
            \A kw \in AccountBidKeywords :
                kw.id = data[i].keyword_id =>
                    /\ DecEq(data[i].current_bid, ParseDecimal(kw.bid_amount[1].amount).val)
                    /\ data[i].currency = kw.bid_amount[1].currency

\* the campaign and ad group that hold keyword id in the account
AccountPathOf(id) ==
    CHOOSE path \in
        UNION { { <<env.account[c].id, env.account[c].ad_groups[g].id>> :
                    g \in { g \in 1..Len(env.account[c].ad_groups) :
                              \E k \in 1..Len(env.account[c].ad_groups[g].keywords) :
                                  env.account[c].ad_groups[g].keywords[k].id = id } } :
                c \in 1..Len(env.account) } : TRUE

\* what holds of a keyword shown in the walkthrough
Presentable(kw, threshold, bidIds) ==
    /\ DecGt(kw.current_bid, Dec(0, 0))
    /\ kw.high_share # None
    /\ FLt(kw.high_share, threshold)
    /\ FLt(kw.high_share, F050)
    /\ LET suggested == suggested_bid(kw)
       IN  /\ \/ DecEq(suggested, Times(kw.current_bid, 150))
              \/ DecEq(suggested, Times(kw.current_bid, 125))
              \/ DecEq(suggested, Times(kw.current_bid, 110))
           /\ DecGt(suggested, kw.current_bid)
    /\ kw.keyword_id \in DOMAIN keyword_paths
    /\ kw.keyword_id \in bidIds

\* C11: every keyword shown in the optimize walkthrough has current_bid > 0,
\* a known high_share strictly below max_share/100 and below 0.50, a
\* suggested bid above the current bid and an entry in keyword_paths; every
\* accept ("y") issues exactly one update call, for the campaign and ad
\* group recorded for (and holding) the keyword, with an amount strictly
\* above the current bid; updates_made + updates_skipped never exceeds the
\* number of keywords shown.
C11_Presented ==
    (args.cmd = "optimize" /\ data # <<>>) =>
        /\ LET threshold == ThresholdOf(args.share)
               bidIds    == { k.id : k \in AccountBidKeywords }
           IN  \A p \in LogIdx :
                  IsPresent(log[p]) => Presentable(log[p][3], threshold, bidIds)
        /\ \A p \in LogIdx :
              IsPrompt(log[p], "y") =>
                 LET kw   == log[p - 1][3]
                     call == log[p + 1]
                 IN  /\ IsPresent(log[p - 1])
                     /\ p < Len(log)
                     /\ IsUpdateCall(call)
                     /\ call[5] = kw.keyword_id
                     /\ <<call[3], call[4]>> = keyword_paths[kw.keyword_id]
                     /\ <<call[3], call[4]>> = AccountPathOf(kw.keyword_id)
                     /\ DecGt(call[6], kw.current_bid)
                     /\ call[7] = kw.currency
                     /\ p + 1 < Len(log) => ~IsUpdateCall(log[p + 2])
        /\ updates_made + updates_skipped <= Len(Presents)

C11_Witness ==
    /\ args.cmd = "optimize"
    /\ ~args.dry_run
    /\ args.share = FromInt(80)
    /\ pc = "done"
    /\ Len(filtered) = 2
    /\ filtered[1].high_share = F050
    /\ Len(data) = 1
    /\ updates_made = 1
    /\ \E p \in LogIdx :
          /\ IsPrompt(log[p], "y")
          /\ IsUpdateCall(log[p + 1])
          /\ CallOk(log[p + 1])
          /\ DecGt(log[p + 1][6], log[p - 1][3].current_bid)

====
